---- MODULE Spec2Model ----
(***************************************************************************)
(* Model of the concurrent article-rating pipeline of yellow_press_rate:   *)
(* process_articles / main launch one process_article task per URL in an   *)
(* anyio task group; each task runs fetch -> sanitize -> split_by_words    *)
(* (under async_timeout) -> calculate_yellow_press_rate and appends one    *)
(* ArticleAnalyseStats to the shared results list.                         *)
(*                                                                         *)
(* Two variants of process_article exist in the repository:                *)
(*   "handlers": articles_handlers.py (one try block, finally-append)      *)
(*   "main"    : main.py (one try block per stage, early returns)          *)
(* The variable `variant` fixes which one a behaviour runs.                *)
(***************************************************************************)
EXTENDS Integers, Sequences, FiniteSets, TLC

\* ------------------------------------------------------------------ bounds
\* Largest batch (number of URLs handed to process_articles).
MaxUrls == 2

\* Largest number of URLs in the urls parameter of one request.
MaxRequestUrls == 11

\* ------------------------------------------------------ values and inputs
Variants == {"handlers", "main"}

\* URL strings handed to the batch; they are never parsed by the core.
Urls == {"random_link", "https://inosmi.ru/a.html"}

\* Optional[...] fields of the dataclass: None is <<>>, a value v is <<v>>.
None == <<>>
Some(v) == <<v>>

\* ProcessingStatus
OK == "OK"
FETCH_ERROR == "FETCH_ERROR"
PARSE_ERROR == "PARSE_ERROR"
TIMEOUT_ERROR == "TIMEOUT_ERROR"
ProcessingStatus == {OK, FETCH_ERROR, PARSE_ERROR, TIMEOUT_ERROR}

\* What the awaited session.get / raise_for_status / response.text() of
\* fetch can do: return the page, raise aiohttp.ClientError (network error,
\* non-success status, InvalidURL), raise asyncio.TimeoutError (the client's
\* own timeout), or raise any other exception (e.g. a decoding error).
FetchOutcomes == {"ok", "ClientError", "TimeoutError", "OtherError"}

\* Pages a successful fetch can return.
Htmls == {"no_article", "empty_article", "short_article", "mixed_article"}

\* Raw tokens of article plaintext; "," is punctuation.
Punctuation == {","}

\* The two lexicon files, as raw token lists.
NegativeText == <<"bads">>
PositiveText == <<"goods">>

(***************************************************************************)
(* Collaborators (adapters.inosmi_ru.sanitize and text_tools) are code of  *)
(* the repository that is not part of the sources at hand; they are        *)
(* modelled from their documented contracts.                               *)
(***************************************************************************)

\* sanitize(html, plaintext=True): the plaintext of the article, as raw
\* tokens; SanitizeRaises tells when it raises ArticleNotFound.
SanitizeRaises(html) == html = "no_article"

sanitize(html) ==
    CASE html = "empty_article" -> <<>>
      [] html = "short_article" -> <<"fine">>
      [] html = "mixed_article" -> <<"bads", ",", "fine">>
      [] OTHER -> <<>>

\* morph.parse(word)[0].normal_form: the canonical form of a raw token.
normalize(token) ==
    CASE token = "bads" -> "bad"
      [] token = "goods" -> "good"
      [] OTHER -> token

\* One iteration of split_by_words: the words gathered so far, extended by
\* the normal form of the next raw token unless it is punctuation.
split_step(words, token) ==
    IF token \in Punctuation THEN words ELSE Append(words, normalize(token))

\* split_by_words run to completion on a text.
RECURSIVE split_by_words(_)
split_by_words(text) ==
    IF text = <<>> THEN <<>>
    ELSE split_step(split_by_words(SubSeq(text, 1, Len(text) - 1)), text[Len(text)])

\* Number of entries of words that occur in charged (repetitions count).
RECURSIVE CountCharged(_, _)
CountCharged(words, charged) ==
    IF words = <<>> THEN 0
    ELSE (IF \E k \in 1..Len(charged) : charged[k] = Head(words) THEN 1 ELSE 0)
         + CountCharged(Tail(words), charged)

\* Variant of the scorer without the case for an article without words:
\* its result is then no number (-1 stands for it).
calculate_yellow_press_rate_unguarded(article_words, charged) ==
    IF Len(article_words) = 0 THEN -1
    ELSE (10000 * CountCharged(article_words, charged)) \div Len(article_words)

\* calculate_yellow_press_rate: percentage of charged words, in hundredths
\* of a percent (0 .. 10000); 0 for an article without words.
calculate_yellow_press_rate(article_words, charged) ==
    IF Len(article_words) = 0 THEN 0
    ELSE (10000 * CountCharged(article_words, charged)) \div Len(article_words)

\* gather_charged_words: the normalized negative words followed by the
\* normalized positive words, as one list.
gather_charged_words == split_by_words(NegativeText) \o split_by_words(PositiveText)

\* ------------------------------------------------------------------ state
VARIABLES
    variant,        \* which process_article runs
    urls,           \* the argument of process_articles / TEST_ARTICLES
    orch,           \* the orchestrator: "start", "waiting", "returned", "raised"
    charged_words,  \* the list built by gather_charged_words
    results,        \* the shared results list
    cancelled,      \* the task group's cancel scope has been cancelled
    host_cancelled, \* the caller cancelled the batch while it waited
    pc,             \* per task: the stage it is in
    article_html,   \* per task: local of process_article
    article_text,   \* per task: local of process_article
    article_words,  \* per task: words gathered by split_by_words so far
    pos,            \* per task: raw tokens consumed by split_by_words
    hist,           \* per task (history): how each stage ended, "none" if not run
    outcome,        \* per task (history): the entries the task appended
    exc,            \* per task (history): the exception that left the task
    query,          \* the urls parameter of a request to read_root, as tokens
    response        \* what read_root has answered, "none" before

vars == <<variant, urls, orch, charged_words, results, cancelled, host_cancelled, pc,
          article_html, article_text, article_words, pos, hist, outcome, exc,
          query, response>>

Tasks == DOMAIN pc

Terminal == {"Done", "Raised"}

\* html is the page a successful fetch returned; partial is the number of
\* words split_by_words had gathered when a timeout ended it.
NoHist == [fetch |-> "none", html |-> "", sanitize |-> "none", tokenize |-> "none",
           partial |-> 0, score |-> "none"]

\* Sequences over S of length at most n.
SeqUpTo(S, n) == UNION {[1..k -> S] : k \in 0..n}

Init ==
    /\ variant \in Variants
    /\ urls \in SeqUpTo(Urls, MaxUrls)
    /\ orch = "start"
    /\ charged_words = <<>>
    /\ results = <<>>
    /\ cancelled = FALSE
    /\ host_cancelled = FALSE
    /\ pc = [i \in 1..Len(urls) |-> "NotStarted"]
    /\ article_html = [i \in 1..Len(urls) |-> ""]
    /\ article_text = [i \in 1..Len(urls) |-> <<>>]
    /\ article_words = [i \in 1..Len(urls) |-> <<>>]
    /\ pos = [i \in 1..Len(urls) |-> 0]
    /\ hist = [i \in 1..Len(urls) |-> NoHist]
    /\ outcome = [i \in 1..Len(urls) |-> <<>>]
    /\ exc = [i \in 1..Len(urls) |-> "none"]
    /\ query = <<>>
    /\ response = "none"

\* ------------------------------------------------------- the dataclasses
\* ArticleAnalyseStats of articles_handlers.py: url, status, rate, words_count.
\* ArticleAnalyseStats of main.py has time_took (default 0.0) as well.
ArticleAnalyseStats(v, url, status, time_took, rate, words_count) ==
    IF v = "handlers"
    THEN [url |-> url, status |-> status, rate |-> rate, words_count |-> words_count]
    ELSE [url |-> url, status |-> status, time_took |-> time_took,
          rate |-> rate, words_count |-> words_count]

\* timeit(): the time since the tokenization block was entered, in ticks;
\* one tick passes on entry and one per raw token handled.
t(i) == 1 + pos[i]

\* ----------------------------------------------- the ends of process_article
ClearLocals(i) ==
    /\ article_html' = [article_html EXCEPT ![i] = ""]
    /\ article_text' = [article_text EXCEPT ![i] = <<>>]
    /\ article_words' = [article_words EXCEPT ![i] = <<>>]
    /\ pos' = [pos EXCEPT ![i] = 0]

\* Variant of AppendAndReturn in which an error entry cancels the scope.
AppendAndReturn_cancels(i, stats) ==
    /\ results' = Append(results, stats)
    /\ outcome' = [outcome EXCEPT ![i] = Append(@, stats)]
    /\ pc' = [pc EXCEPT ![i] = "Done"]
    /\ ClearLocals(i)
    /\ cancelled' = (cancelled \/ stats.status # OK)
    /\ UNCHANGED exc

\* results.append(stats) followed by the return of the task.
AppendAndReturn(i, stats) ==
    /\ results' = Append(results, stats)
    /\ outcome' = [outcome EXCEPT ![i] = Append(@, stats)]
    /\ pc' = [pc EXCEPT ![i] = "Done"]
    /\ ClearLocals(i)
    /\ UNCHANGED <<cancelled, exc>>

\* An exception leaves process_article: the task group cancels its scope.
RaiseOut(i, e) ==
    /\ pc' = [pc EXCEPT ![i] = "Raised"]
    /\ exc' = [exc EXCEPT ![i] = e]
    /\ cancelled' = TRUE
    /\ ClearLocals(i)
    /\ UNCHANGED <<results, outcome>>

\* The except clauses that see an exception e raised in a stage:
\* the status they record, or "unhandled".
\* Variant of except_handlers that reports ArticleNotFound as a fetch error.
except_handlers_mislabel(stage, e) ==
    CASE e = "ClientError" -> FETCH_ERROR
      [] e = "TimeoutError" -> TIMEOUT_ERROR
      [] e = "ArticleNotFound" -> FETCH_ERROR
      [] OTHER -> "unhandled"

except_handlers(stage, e) ==
    CASE e = "ClientError" -> FETCH_ERROR
      [] e = "TimeoutError" -> TIMEOUT_ERROR
      [] e = "ArticleNotFound" -> PARSE_ERROR
      [] OTHER -> "unhandled"

\* Variant of except_main without the except aiohttp.ClientError clause.
except_main_no_client_error(stage, e) ==
    CASE stage = "fetch" /\ e = "TimeoutError" -> TIMEOUT_ERROR
      [] stage = "sanitize" /\ e = "ArticleNotFound" -> PARSE_ERROR
      [] stage = "tokenize" /\ e = "TimeoutError" -> TIMEOUT_ERROR
      [] OTHER -> "unhandled"

\* Variant of except_main without the except asyncio.exceptions.TimeoutError
\* clause of the fetch stage.
except_main_no_fetch_timeout(stage, e) ==
    CASE stage = "fetch" /\ e = "ClientError" -> FETCH_ERROR
      [] stage = "sanitize" /\ e = "ArticleNotFound" -> PARSE_ERROR
      [] stage = "tokenize" /\ e = "TimeoutError" -> TIMEOUT_ERROR
      [] OTHER -> "unhandled"

except_main(stage, e) ==
    CASE stage = "fetch" /\ e = "ClientError" -> FETCH_ERROR
      [] stage = "fetch" /\ e = "TimeoutError" -> TIMEOUT_ERROR
      [] stage = "sanitize" /\ e = "ArticleNotFound" -> PARSE_ERROR
      [] stage = "tokenize" /\ e = "TimeoutError" -> TIMEOUT_ERROR
      [] OTHER -> "unhandled"

\* Variant of error_stats that reads the timer for every error entry.
error_stats_always_timed(i, stage, status) ==
    ArticleAnalyseStats(variant, urls[i], status, t(i), None, None)

\* Variant of error_stats that keeps the count of the words gathered so far.
error_stats_partial(i, stage, status) ==
    ArticleAnalyseStats(variant, urls[i], status,
                        IF stage = "tokenize" THEN t(i) ELSE 0, None,
                        Some(Len(article_words[i])))

\* The entry of a failed task: url and status, rate and words_count left
\* at their default None; main.py passes t() as time_took for a
\* tokenization timeout and leaves the default 0.0 otherwise.
error_stats(i, stage, status) ==
    ArticleAnalyseStats(variant, urls[i], status,
                        IF stage = "tokenize" THEN t(i) ELSE 0, None, None)

\* Variant of ok_stats that counts the raw tokens of the text.
ok_stats_raw_count(i) ==
    ArticleAnalyseStats(variant, urls[i], OK, t(i),
        Some(calculate_yellow_press_rate(article_words[i], charged_words)),
        Some(Len(article_text[i])))

\* The entry of a task that went through: rate and the number of words.
ok_stats(i) ==
    ArticleAnalyseStats(variant, urls[i], OK, t(i),
        Some(calculate_yellow_press_rate(article_words[i], charged_words)),
        Some(Len(article_words[i])))

\* Variant of StageRaises that swallows an exception no clause matches:
\* the task returns without an entry.
StageRaises_swallow(i, stage, e) ==
    LET status == IF variant = "handlers" THEN except_handlers(stage, e)
                  ELSE except_main(stage, e)
    IN IF status = "unhandled"
       THEN /\ pc' = [pc EXCEPT ![i] = "Done"]
            /\ ClearLocals(i)
            /\ UNCHANGED <<results, outcome, cancelled, exc>>
       ELSE AppendAndReturn(i, error_stats(i, stage, status))

\* Stage `stage` of task i raised e.
\* handlers: a matching except clause binds stats and finally appends it;
\*   with no matching clause finally reads the unbound stats, and
\*   UnboundLocalError leaves the task without an append.
\* main: a matching clause appends and returns, otherwise e propagates.
StageRaises(i, stage, e) ==
    LET status == IF variant = "handlers" THEN except_handlers(stage, e)
                  ELSE except_main(stage, e)
    IN IF status = "unhandled"
       THEN RaiseOut(i, IF variant = "handlers" THEN "UnboundLocalError" ELSE e)
       ELSE AppendAndReturn(i, error_stats(i, stage, status))

\* process_article of variant v as a function of the results h of its
\* stages: the entries it appends (url, status, rate, words_count). The
\* first stage that raised decides; with none the else branch runs.
process_article_entries(v, url, h) ==
    LET stage == IF h.fetch # "ok" THEN "fetch"
                 ELSE IF h.sanitize # "ok" THEN "sanitize"
                 ELSE IF h.tokenize # "ok" THEN "tokenize"
                 ELSE "none"
        status == IF v = "handlers" THEN except_handlers(stage, h[stage])
                  ELSE except_main(stage, h[stage])
        words == split_by_words(sanitize(h.html))
    IN IF stage = "none"
       THEN <<[url |-> url, status |-> OK,
               rate |-> Some(calculate_yellow_press_rate(words, gather_charged_words)),
               words_count |-> Some(Len(words))]>>
       ELSE IF status = "unhandled" THEN <<>>
       ELSE <<[url |-> url, status |-> status, rate |-> None, words_count |-> None]>>

\* --------------------------------------------------------------- actions
\* process_articles / main up to the end of the for loop: the lexicon is
\* built, results is created and every task is started.
process_articles_start ==
    /\ orch = "start"
    /\ orch' = "waiting"
    /\ charged_words' = gather_charged_words
    /\ results' = <<>>
    /\ pc' = [i \in Tasks |-> "Fetching"]
    /\ UNCHANGED <<query, response, variant, urls, cancelled, host_cancelled, article_html,
                   article_text, article_words, pos, hist, outcome, exc>>

\* await fetch(session, url) ends in one of the given ways: with a page
\* or with an exception.
process_article_fetch_from(i, ways) ==
    /\ pc[i] = "Fetching"
    /\ ~cancelled
    /\ \E r \in ways :
        /\ IF r = "ok"
           THEN /\ \E html \in Htmls :
                     /\ article_html' = [article_html EXCEPT ![i] = html]
                     /\ hist' = [hist EXCEPT ![i].fetch = r, ![i].html = html]
                /\ pc' = [pc EXCEPT ![i] = "Sanitizing"]
                /\ UNCHANGED <<results, outcome, cancelled, exc, article_text,
                               article_words, pos>>
           ELSE /\ hist' = [hist EXCEPT ![i].fetch = r]
                /\ StageRaises(i, "fetch", r)
    /\ UNCHANGED <<query, response, variant, urls, orch, charged_words, host_cancelled>>

process_article_fetch(i) == process_article_fetch_from(i, FetchOutcomes)

\* article_text = sanitize(article_html, plaintext=True); on success the
\* async_timeout block (and in main.py the timer) is entered.
process_article_sanitize(i) ==
    /\ pc[i] = "Sanitizing"
    /\ IF SanitizeRaises(article_html[i])
       THEN /\ hist' = [hist EXCEPT ![i].sanitize = "ArticleNotFound"]
            /\ StageRaises(i, "sanitize", "ArticleNotFound")
       ELSE /\ hist' = [hist EXCEPT ![i].sanitize = "ok", ![i].tokenize = "running"]
            /\ article_text' = [article_text EXCEPT ![i] = sanitize(article_html[i])]
            /\ pc' = [pc EXCEPT ![i] = "Tokenizing"]
            /\ UNCHANGED <<results, outcome, cancelled, exc, article_html,
                           article_words, pos>>
    /\ UNCHANGED <<query, response, variant, urls, orch, charged_words, host_cancelled>>

\* await split_by_words(morph, article_text) moves on by one raw token, or
\* returns when none is left.
process_article_tokenize(i) ==
    /\ pc[i] = "Tokenizing"
    /\ ~cancelled
    /\ IF pos[i] < Len(article_text[i])
       THEN /\ article_words' = [article_words EXCEPT
                                   ![i] = split_step(@, article_text[i][pos[i] + 1])]
            /\ pos' = [pos EXCEPT ![i] = @ + 1]
            /\ UNCHANGED <<pc, hist>>
       ELSE /\ pc' = [pc EXCEPT ![i] = "Scoring"]
            /\ hist' = [hist EXCEPT ![i].tokenize = "ok"]
            /\ UNCHANGED <<article_words, pos>>
    /\ UNCHANGED <<query, response, variant, urls, orch, charged_words, results, outcome, cancelled,
                   host_cancelled, exc, article_html, article_text>>

\* Variant of the timeout step whose deadline also covers fetch.
process_article_timeout_wide(i) ==
    /\ pc[i] \in {"Fetching", "Tokenizing"}
    /\ hist' = [hist EXCEPT ![i].tokenize = "TimeoutError",
                             ![i].partial = Len(article_words[i])]
    /\ StageRaises(i, "tokenize", "TimeoutError")
    /\ UNCHANGED <<query, response, variant, urls, orch, charged_words, host_cancelled>>

\* Variant of the timeout step that lets a finished split_by_words win:
\* with no raw token left the words are kept and scored.
process_article_timeout_late(i) ==
    /\ pc[i] = "Tokenizing"
    /\ hist' = [hist EXCEPT ![i].tokenize = "TimeoutError",
                             ![i].partial = Len(article_words[i])]
    /\ IF pos[i] = Len(article_text[i])
       THEN /\ pc' = [pc EXCEPT ![i] = "Scoring"]
            /\ UNCHANGED <<results, outcome, cancelled, exc, article_html,
                           article_text, article_words, pos>>
       ELSE StageRaises(i, "tokenize", "TimeoutError")
    /\ UNCHANGED <<query, response, variant, urls, orch, charged_words, host_cancelled>>

\* The deadline of async_timeout.timeout passes while split_by_words is
\* suspended: asyncio.TimeoutError is raised out of the block.
process_article_timeout(i) ==
    /\ pc[i] = "Tokenizing"
    /\ hist' = [hist EXCEPT ![i].tokenize = "TimeoutError",
                             ![i].partial = Len(article_words[i])]
    /\ StageRaises(i, "tokenize", "TimeoutError")
    /\ UNCHANGED <<query, response, variant, urls, orch, charged_words, host_cancelled>>

\* Variant of the scoring step that extends the shared list by the words
\* of the article.
process_article_score_extends(i) ==
    /\ pc[i] = "Scoring"
    /\ hist' = [hist EXCEPT ![i].score = "ok"]
    /\ AppendAndReturn(i, ok_stats(i))
    /\ charged_words' = charged_words \o article_words[i]
    /\ UNCHANGED <<query, response, variant, urls, orch, host_cancelled>>

\* rate = calculate_yellow_press_rate(article_words, charged_words) and the
\* append of the OK entry.
process_article_score(i) ==
    /\ pc[i] = "Scoring"
    /\ hist' = [hist EXCEPT ![i].score = "ok"]
    /\ AppendAndReturn(i, ok_stats(i))
    /\ UNCHANGED <<query, response, variant, urls, orch, charged_words, host_cancelled>>

\* The cancelled scope delivers CancelledError to a task suspended in an
\* await (fetch or split_by_words); no except clause matches it.
process_article_cancelled(i) ==
    /\ cancelled
    /\ pc[i] \in {"Fetching", "Tokenizing"}
    /\ LET stage == IF pc[i] = "Fetching" THEN "fetch" ELSE "tokenize"
       IN /\ hist' = [hist EXCEPT ![i][stage] = "CancelledError"]
          /\ StageRaises(i, stage, "CancelledError")
    /\ UNCHANGED <<query, response, variant, urls, orch, charged_words, host_cancelled>>

\* Variant of the return that puts the entries into the order of urls.
process_articles_return_sorted ==
    /\ orch = "waiting"
    /\ \A i \in Tasks : pc[i] \in Terminal
    /\ orch' = IF host_cancelled \/ \E i \in Tasks : pc[i] = "Raised"
               THEN "raised" ELSE "returned"
    /\ results' = IF \A i \in Tasks : Len(outcome[i]) = 1
                  THEN [k \in 1..Len(urls) |-> outcome[k][1]]
                  ELSE results
    /\ UNCHANGED <<query, response, variant, urls, charged_words, cancelled,
                   host_cancelled, pc, article_html, article_text, article_words,
                   pos, hist, outcome, exc>>

\* Variant of the return that suppresses what the tasks raised.
process_articles_return_suppress ==
    /\ orch = "waiting"
    /\ \A i \in Tasks : pc[i] \in Terminal
    /\ orch' = "returned"
    /\ UNCHANGED <<query, response, variant, urls, charged_words, results, cancelled,
                   host_cancelled, pc, article_html, article_text, article_words,
                   pos, hist, outcome, exc>>

\* Variant of the return that does not wait for the tasks.
process_articles_return_nowait ==
    /\ orch = "waiting"
    /\ orch' = IF host_cancelled \/ \E i \in Tasks : pc[i] = "Raised"
               THEN "raised" ELSE "returned"
    /\ UNCHANGED <<query, response, variant, urls, charged_words, results, cancelled, host_cancelled,
                   pc, article_html, article_text, article_words, pos, hist,
                   outcome, exc>>

\* The end of `async with anyio.create_task_group()`: it is left once every
\* task has ended; it re-raises if a task raised, else results is returned
\* (main prints it).
process_articles_return ==
    /\ orch = "waiting"
    /\ \A i \in Tasks : pc[i] \in Terminal
    /\ orch' = IF host_cancelled \/ \E i \in Tasks : pc[i] = "Raised"
               THEN "raised" ELSE "returned"
    /\ UNCHANGED <<query, response, variant, urls, charged_words, results, cancelled, host_cancelled,
                   pc, article_html, article_text, article_words, pos, hist,
                   outcome, exc>>

\* The caller cancels the batch while it waits for its tasks (a cancelled
\* request, an interrupted asyncio.run): the task group cancels its scope.
batch_cancelled ==
    /\ orch = "waiting"
    /\ ~host_cancelled
    /\ host_cancelled' = TRUE
    /\ cancelled' = TRUE
    /\ UNCHANGED <<query, response, variant, urls, orch, charged_words, results, pc, article_html,
                   article_text, article_words, pos, hist, outcome, exc>>

Next ==
    \/ process_articles_start
    \/ \E i \in Tasks : process_article_fetch(i)
    \/ \E i \in Tasks : process_article_sanitize(i)
    \/ \E i \in Tasks : process_article_tokenize(i)
    \/ \E i \in Tasks : process_article_timeout(i)
    \/ \E i \in Tasks : process_article_score(i)
    \/ \E i \in Tasks : process_article_cancelled(i)
    \/ process_articles_return
    \/ batch_cancelled

Spec == Init /\ [][Next]_vars

\* The steps the event loop and the collaborators take on their own: every
\* started task is scheduled, every awaited call returns or fails, and the
\* task group is left once its tasks have ended. The caller's cancellation
\* is not among them.
Progress ==
    \/ process_articles_start
    \/ \E i \in Tasks : process_article_fetch(i)
    \/ \E i \in Tasks : process_article_sanitize(i)
    \/ \E i \in Tasks : process_article_tokenize(i)
    \/ \E i \in Tasks : process_article_timeout(i)
    \/ \E i \in Tasks : process_article_score(i)
    \/ \E i \in Tasks : process_article_cancelled(i)
    \/ process_articles_return

FairSpec == Spec /\ WF_vars(Progress)

\* ------------------------------------------------------- the HTTP handler
\* The urls parameter is a sequence of tokens: URL strings and "," between
\* them. str.split(','): the segments between the commas, an empty segment
\* being the empty string (so ''.split(',') is ['']).
Segment(tokens) == IF tokens = <<>> THEN "" ELSE tokens[1]

RECURSIVE str_split(_)
str_split(s) ==
    IF \A k \in 1..Len(s) : s[k] # ","
    THEN <<Segment(s)>>
    ELSE LET k == CHOOSE c \in 1..Len(s) :
                      s[c] = "," /\ \A b \in 1..(c - 1) : s[b] # ","
         IN <<Segment(SubSeq(s, 1, k - 1))>> \o str_split(SubSeq(s, k + 1, Len(s)))

\* The parameter that lists the URL "random_link" n times.
RECURSIVE QueryOf(_)
QueryOf(n) ==
    IF n = 0 THEN <<>>
    ELSE IF n = 1 THEN <<"random_link">>
    ELSE QueryOf(n - 1) \o <<",", "random_link">>

\* A request GET /?urls=... has arrived and read_root has not run yet.
ServerInit ==
    /\ variant \in Variants
    /\ query \in {QueryOf(n) : n \in 0..MaxRequestUrls}
    /\ response = "none"
    /\ urls = <<>>
    /\ orch = "request"
    /\ charged_words = <<>>
    /\ results = <<>>
    /\ cancelled = FALSE
    /\ host_cancelled = FALSE
    /\ pc = <<>>
    /\ article_html = <<>>
    /\ article_text = <<>>
    /\ article_words = <<>>
    /\ pos = <<>>
    /\ hist = <<>>
    /\ outcome = <<>>
    /\ exc = <<>>

\* read_root up to its call: analyse_articles(urls.split(',')) is entered
\* with every segment of the parameter; the handler looks at nothing else.
read_root ==
    /\ orch = "request"
    /\ urls' = str_split(query)
    /\ orch' = "start"
    /\ pc' = [i \in 1..Len(urls') |-> "NotStarted"]
    /\ article_html' = [i \in 1..Len(urls') |-> ""]
    /\ article_text' = [i \in 1..Len(urls') |-> <<>>]
    /\ article_words' = [i \in 1..Len(urls') |-> <<>>]
    /\ pos' = [i \in 1..Len(urls') |-> 0]
    /\ hist' = [i \in 1..Len(urls') |-> NoHist]
    /\ outcome' = [i \in 1..Len(urls') |-> <<>>]
    /\ exc' = [i \in 1..Len(urls') |-> "none"]
    /\ UNCHANGED <<query, response, variant, charged_words, results, cancelled,
                   host_cancelled>>

\* fetch of a URL that is no URL ('random_link'): aiohttp raises InvalidURL,
\* a ClientError.
process_article_fetch_invalid(i) == process_article_fetch_from(i, {"ClientError"})

\* The end of read_root: the entries as dicts under "urls".
read_root_respond ==
    /\ orch = "returned"
    /\ orch' = "responded"
    /\ response' = [code |-> 200, urls |-> results]
    /\ UNCHANGED <<query, variant, urls, charged_words, results, cancelled,
                   host_cancelled, pc, article_html, article_text, article_words,
                   pos, hist, outcome, exc>>

\* A request whose URLs are all invalid, served without interruption.
ServerNext ==
    \/ read_root
    \/ process_articles_start
    \/ \E i \in Tasks : process_article_fetch_invalid(i)
    \/ process_articles_return
    \/ read_root_respond

ServerSpec == ServerInit /\ [][ServerNext]_vars

\* =================================================================== claims
\* The fields of an entry that both variants of the dataclass have.
Core(r) == [url |-> r.url, status |-> r.status, rate |-> r.rate,
            words_count |-> r.words_count]

ErrorEntry(url, status) ==
    [url |-> url, status |-> status, rate |-> None, words_count |-> None]

\* Task i received CancelledError.
WasCancelled(i) == hist[i].fetch = "CancelledError" \/ hist[i].tokenize = "CancelledError"

\* Number of positions of sequence q that satisfy Test.
Count(q, Test(_)) == Cardinality({k \in 1..Len(q) : Test(q[k])})

\* A step leaves everything that belongs to task j as it was.
Untouched(j) ==
    /\ pc'[j] = pc[j]
    /\ hist'[j] = hist[j]
    /\ outcome'[j] = outcome[j]
    /\ exc'[j] = exc[j]
    /\ article_html'[j] = article_html[j]
    /\ article_text'[j] = article_text[j]
    /\ article_words'[j] = article_words[j]
    /\ pos'[j] = pos[j]

\* --------------------------------------------------------------------- C1
\* C1: when process_articles has returned, results holds exactly len(urls)
\* entries and every URL occurs among the url fields as often as it occurs
\* in the input (empty and duplicate inputs included).
C1_OneEntryPerUrl ==
    orch = "returned" =>
        /\ Len(results) = Len(urls)
        /\ \A u \in Urls :
              LET IsU(x) == x = u
                  HasU(r) == r.url = u
              IN Count(results, HasU) = Count(urls, IsU)

\* A batch holding the same URL twice has returned, one task having failed.
C1_Witness ==
    /\ orch = "returned"
    /\ Len(urls) = 2
    /\ urls[1] = urls[2]
    /\ results[1].status # results[2].status

\* --------------------------------------------------------------------- C2
\* C2 (as claimed): every invocation of process_article that has ended
\* without being cancelled has appended exactly one entry, whose status is
\* one of OK, FETCH_ERROR, PARSE_ERROR, TIMEOUT_ERROR.
C2_ExactlyOneAppend ==
    \A i \in Tasks :
        (pc[i] \in Terminal /\ ~WasCancelled(i)) =>
            /\ Len(outcome[i]) = 1
            /\ outcome[i][1].status \in ProcessingStatus

\* --------------------------------------------------------------------- C3
\* C3: every entry of results has status OK iff its rate is present iff its
\* words_count is present.
C3_RateIffOk ==
    \A k \in 1..Len(results) :
        /\ results[k].status = OK <=> results[k].rate # None
        /\ results[k].rate # None <=> results[k].words_count # None

\* results holds an OK entry and a TIMEOUT_ERROR entry of a task that had
\* gathered words when its deadline passed.
C3_Witness ==
    /\ \E k \in 1..Len(results) : results[k].status = OK
    /\ \E i \in Tasks : hist[i].tokenize = "TimeoutError" /\ hist[i].partial > 0

\* --------------------------------------------------------------------- C4
\* C4 (as claimed): no exception leaves process_article: a task that was
\* not cancelled never ends by raising.
C4_NeverRaises ==
    \A i \in Tasks : ~WasCancelled(i) => pc[i] # "Raised"

\* --------------------------------------------------------------------- C5
\* The entry task j appends when it runs alone, from the results of its
\* own stages.
SoloOutcome(j) ==
    LET words == split_by_words(sanitize(hist[j].html))
    IN CASE hist[j].fetch = "ClientError" -> ErrorEntry(urls[j], FETCH_ERROR)
         [] hist[j].fetch = "TimeoutError" -> ErrorEntry(urls[j], TIMEOUT_ERROR)
         [] hist[j].sanitize = "ArticleNotFound" -> ErrorEntry(urls[j], PARSE_ERROR)
         [] hist[j].tokenize = "TimeoutError" -> ErrorEntry(urls[j], TIMEOUT_ERROR)
         [] OTHER -> [url |-> urls[j], status |-> OK,
                      rate |-> Some(calculate_yellow_press_rate(words, gather_charged_words)),
                      words_count |-> Some(Len(words))]

\* Task i ends in this step with a FETCH_ERROR, PARSE_ERROR or
\* TIMEOUT_ERROR entry.
FailsNow(i) ==
    /\ pc[i] \notin Terminal
    /\ pc'[i] = "Done"
    /\ Len(outcome'[i]) = 1
    /\ outcome'[i][1].status \in {FETCH_ERROR, PARSE_ERROR, TIMEOUT_ERROR}

\* C5: the step in which a task fails with FETCH_ERROR, PARSE_ERROR or
\* TIMEOUT_ERROR does not cancel the scope, leaves every other task and
\* every earlier entry of results as they were, and the entry of every task
\* that returned is the one it produces alone from its own stage results.
C5_Isolation ==
    /\ [][\A i \in Tasks : FailsNow(i) =>
            /\ cancelled' = cancelled
            /\ \A j \in Tasks \ {i} : Untouched(j)
            /\ results' = Append(results, outcome'[i][1])]_vars
    /\ [](\A j \in Tasks : pc[j] = "Done" =>
            /\ Len(outcome[j]) = 1
            /\ Core(outcome[j][1]) = SoloOutcome(j))

\* One task has failed, the scope is not cancelled, and a sibling has gone
\* through with OK after it.
C5_Witness ==
    /\ ~cancelled
    /\ Len(results) = 2
    /\ results[1].status \in {FETCH_ERROR, PARSE_ERROR, TIMEOUT_ERROR}
    /\ results[2].status = OK
    /\ results[2].words_count = Some(2)

\* --------------------------------------------------------------------- C6
\* C6: once process_articles (or the task-group block of main) has been
\* left, no task is in Fetching, Sanitizing, Tokenizing or Scoring.
C6_Barrier ==
    orch \in {"returned", "raised"} => \A i \in Tasks : pc[i] \in Terminal

\* A batch of two has returned.
C6_Witness ==
    /\ orch = "returned"
    /\ Len(urls) = 2
    /\ \A i \in Tasks : pc[i] = "Done"

\* --------------------------------------------------------------------- C7
\* C7: a task whose fetch raised aiohttp.ClientError has the outcome
\* FETCH_ERROR without rate and words_count, and ran neither sanitize nor
\* split_by_words nor the scorer.
C7_FetchError ==
    \A i \in Tasks : hist[i].fetch = "ClientError" =>
        /\ pc[i] = "Done"
        /\ Len(outcome[i]) = 1
        /\ Core(outcome[i][1]) = ErrorEntry(urls[i], FETCH_ERROR)
        /\ hist[i].sanitize = "none"
        /\ hist[i].tokenize = "none"
        /\ hist[i].score = "none"

\* A fetch has failed with ClientError while a sibling is still fetching.
C7_Witness ==
    \E i, j \in Tasks :
        /\ hist[i].fetch = "ClientError"
        /\ pc[j] = "Fetching"

\* --------------------------------------------------------------------- C8
\* C8: a task whose fetch succeeded and whose sanitize raised
\* ArticleNotFound has the outcome PARSE_ERROR without rate and
\* words_count, and ran neither split_by_words nor the scorer.
C8_ParseError ==
    \A i \in Tasks : hist[i].sanitize = "ArticleNotFound" =>
        /\ hist[i].fetch = "ok"
        /\ pc[i] = "Done"
        /\ Len(outcome[i]) = 1
        /\ Core(outcome[i][1]) = ErrorEntry(urls[i], PARSE_ERROR)
        /\ hist[i].tokenize = "none"
        /\ hist[i].score = "none"

\* sanitize has raised ArticleNotFound in a task.
C8_Witness ==
    \E i \in Tasks : hist[i].fetch = "ok" /\ hist[i].sanitize = "ArticleNotFound"

\* --------------------------------------------------------------------- C9
\* C9: a task whose split_by_words ran into the deadline has the outcome
\* TIMEOUT_ERROR, never OK; the words gathered so far are dropped: no rate,
\* no words_count, and the scorer did not run.
C9_TimeoutError ==
    \A i \in Tasks : hist[i].tokenize = "TimeoutError" =>
        /\ hist[i].fetch = "ok"
        /\ hist[i].sanitize = "ok"
        /\ pc[i] = "Done"
        /\ Len(outcome[i]) = 1
        /\ Core(outcome[i][1]) = ErrorEntry(urls[i], TIMEOUT_ERROR)
        /\ hist[i].score = "none"

\* The deadline passed after split_by_words had gathered every word of the
\* article.
C9_Witness ==
    \E i \in Tasks :
        /\ hist[i].tokenize = "TimeoutError"
        /\ hist[i].partial = Len(split_by_words(sanitize(hist[i].html)))
        /\ hist[i].partial = 2

\* -------------------------------------------------------------------- C10
\* C10 (as claimed): a task has the outcome TIMEOUT_ERROR only if its
\* tokenization stage was started and ran into its deadline.
C10_TimeoutOnlyFromTokenization ==
    \A i \in Tasks :
        (Len(outcome[i]) = 1 /\ outcome[i][1].status = TIMEOUT_ERROR) =>
            hist[i].tokenize = "TimeoutError"

\* C10 (amended): a task has the outcome TIMEOUT_ERROR only if its
\* tokenization ran into the async_timeout deadline or its fetch raised
\* asyncio.TimeoutError; the async_timeout deadline passes only in a task
\* that is in its tokenization stage after a successful fetch and sanitize,
\* and the step in which it passes neither cancels the scope nor touches a
\* sibling task.
C10_TimeoutScope ==
    /\ [](\A i \in Tasks :
            (Len(outcome[i]) = 1 /\ outcome[i][1].status = TIMEOUT_ERROR) =>
                \/ hist[i].tokenize = "TimeoutError"
                \/ hist[i].fetch = "TimeoutError" /\ hist[i].tokenize = "none")
    /\ [][\A i \in Tasks :
            (hist[i].tokenize # "TimeoutError" /\ hist'[i].tokenize = "TimeoutError") =>
                /\ pc[i] = "Tokenizing"
                /\ hist[i].fetch = "ok"
                /\ hist[i].sanitize = "ok"
                /\ cancelled' = cancelled
                /\ \A j \in Tasks \ {i} : Untouched(j)]_vars

\* A tokenization timeout has ended one task while a sibling is still
\* fetching in a scope that is not cancelled.
C10_Witness ==
    \E i, j \in Tasks :
        /\ hist[i].tokenize = "TimeoutError"
        /\ pc[j] = "Fetching"
        /\ ~cancelled

\* -------------------------------------------------------------------- C11
\* C11 (as claimed): a task that the caller's cancellation of the batch
\* reached before it ended has recorded TIMEOUT_ERROR for its URL.
C11_CancelRecordsTimeout ==
    \A i \in Tasks :
        (host_cancelled /\ WasCancelled(i)) =>
            /\ Len(outcome[i]) = 1
            /\ outcome[i][1].status = TIMEOUT_ERROR

\* -------------------------------------------------------------------- C12
\* C12 (as claimed): unless its caller cancels it, a batch whose tasks are
\* scheduled and whose collaborator calls end eventually returns.
C12_EventuallyReturns ==
    ([]~host_cancelled) => <>(orch = "returned")

\* What does hold under the same fairness: the batch is eventually left,
\* by a return or by an exception.
EventuallyLeft == <>(orch \in {"returned", "raised"})

\* -------------------------------------------------------------------- C13
\* C13 (as claimed): for a request whose urls parameter lists more than 10
\* URLs no task is ever launched and the answer is not a 200 with results.
C13_RejectsOverLimit ==
    Len(str_split(query)) > 10 =>
        /\ \A i \in Tasks : pc[i] = "NotStarted"
        /\ response = "none" \/ response.code = 400

\* -------------------------------------------------------------------- C14
\* C14: a task whose fetch, sanitize and tokenization succeeded ends with
\* status OK; the entry it appends has words_count equal to the length of
\* the word list split_by_words returned for its article and rate equal to
\* the scorer's result on that list and the shared charged words, a value
\* between 0 and 100 percent (0 .. 10000 hundredths).
C14_OkEntry ==
    /\ [](\A i \in Tasks : hist[i].tokenize = "ok" =>
            /\ hist[i].fetch = "ok" /\ hist[i].sanitize = "ok"
            /\ pc[i] \in {"Scoring", "Done"}
            /\ pc[i] = "Done" => Len(outcome[i]) = 1 /\ outcome[i][1].status = OK)
    /\ [][\A i \in Tasks : (pc[i] = "Scoring" /\ pc'[i] # "Scoring") =>
            LET words == split_by_words(sanitize(hist[i].html))
                rate == calculate_yellow_press_rate(words, charged_words)
            IN /\ article_words[i] = words
               /\ pc'[i] = "Done"
               /\ results' = Append(results, outcome'[i][1])
               /\ Core(outcome'[i][1]) =
                    [url |-> urls[i], status |-> OK, rate |-> Some(rate),
                     words_count |-> Some(Len(words))]
               /\ rate \in 0..10000]_vars

\* An article of two words, one of them charged, has been rated 50 percent.
C14_Witness ==
    \E k \in 1..Len(results) :
        /\ results[k].status = OK
        /\ results[k].words_count = Some(2)
        /\ results[k].rate = Some(5000)

C16_ChargedWordsFrozen ==
    /\ [](\A i \in Tasks : pc[i] # "NotStarted" => charged_words = gather_charged_words)
    /\ [](orch # "start" => charged_words = gather_charged_words)
    /\ [][orch # "start" => charged_words' = charged_words]_vars

\* A batch of two has returned after one of its tasks rated an article
\* against the list.
C16_Witness ==
    /\ orch = "returned"
    /\ Len(urls) = 2
    /\ charged_words = <<"bad", "good">>
    /\ \E k \in 1..Len(results) : results[k].rate = Some(5000)

\* -------------------------------------------------------------------- C17
\* Task i of main.py got as far as its tokenization stage.
TokenizationStarted(i) == hist[i].tokenize \in {"ok", "TimeoutError"}

\* C17 (as claimed): in main.py the entry of a task that ended before its
\* tokenization started (FETCH_ERROR, PARSE_ERROR) holds no elapsed time.
C17_NoTimeBeforeTokenization ==
    \A i \in Tasks :
        (variant = "main" /\ Len(outcome[i]) = 1 /\ ~TokenizationStarted(i)) =>
            "time_took" \notin DOMAIN outcome[i][1]

\* C17 (amended): in main.py every entry holds a time_took; it is the
\* reading of the tokenization timer (a positive time) exactly for the
\* entries of tasks whose tokenization started, OK and tokenization
\* TIMEOUT_ERROR, and the default 0.0 for the entries of tasks that ended
\* before, FETCH_ERROR, PARSE_ERROR and the TIMEOUT_ERROR of a fetch.
C17_TimeTook ==
    /\ [](\A i \in Tasks : (variant = "main" /\ Len(outcome[i]) = 1) =>
            /\ "time_took" \in DOMAIN outcome[i][1]
            /\ TokenizationStarted(i) <=> outcome[i][1].time_took > 0
            /\ ~TokenizationStarted(i) <=> outcome[i][1].time_took = 0
            /\ TokenizationStarted(i) <=> outcome[i][1].status = OK
                                          \/ hist[i].tokenize = "TimeoutError"
            /\ outcome[i][1].status \in {FETCH_ERROR, PARSE_ERROR}
                  => outcome[i][1].time_took = 0)
    /\ [][\A i \in Tasks :
            (variant = "main" /\ pc[i] \in {"Tokenizing", "Scoring"} /\ pc'[i] = "Done")
                => outcome'[i][1].time_took = 1 + pos[i]]_vars

\* main.py has recorded a tokenization timeout with the time of two handled
\* tokens and a fetch error with the default time.
C17_Witness ==
    /\ variant = "main"
    /\ \E k \in 1..Len(results) :
          results[k].status = TIMEOUT_ERROR /\ results[k].time_took = 3
    /\ \E k \in 1..Len(results) :
          results[k].status = FETCH_ERROR /\ results[k].time_took = 0

\* -------------------------------------------------------------------- C18
\* Task i returns in this step.
ReturnsNow(i) == pc[i] \notin Terminal /\ pc'[i] = "Done"

\* C18: the entry of a task is put at the end of results in the step in
\* which the task ends, and no other step changes results once the tasks
\* are started: the list is in the order in which the tasks ended and is
\* not put into the order of urls before it is returned.
C18_CompletionOrder ==
    [][/\ \A i \in Tasks : ReturnsNow(i) => results' = Append(results, outcome'[i][1])
       /\ (orch # "start" /\ \A i \in Tasks : ~ReturnsNow(i)) => results' = results]_vars

\* A batch of two different URLs has returned with the entry of the second
\* URL before the entry of the first.
C18_Witness ==
    /\ orch = "returned"
    /\ Len(urls) = 2
    /\ urls[1] # urls[2]
    /\ results[1].url = urls[2]
    /\ results[2].url = urls[1]

\* The other order of the same batch: the entries in the order of urls.
C18_InputOrder ==
    /\ orch = "returned"
    /\ Len(urls) = 2
    /\ urls[1] # urls[2]
    /\ results[1].url = urls[1]
    /\ results[2].url = urls[2]

\* -------------------------------------------------------------------- C19
\* The fields of the entries task i appended that both dataclasses have.
CoreSeq(q) == [k \in 1..Len(q) |-> Core(q[k])]

\* C19: for the stage results of every task that has ended, the
\* process_article of articles_handlers.py and the one of main.py append
\* the same number of entries with the same url, status, rate and
\* words_count, and these are the entries the task did append.
C19_VariantsAgree ==
    \A i \in Tasks : pc[i] \in Terminal =>
        /\ process_article_entries("handlers", urls[i], hist[i])
             = process_article_entries("main", urls[i], hist[i])
        /\ CoreSeq(outcome[i]) = process_article_entries(variant, urls[i], hist[i])

\* Between them the tasks of a batch have ended on a fetch TimeoutError and
\* on a tokenization timeout.
C19_Witness ==
    /\ \E i \in Tasks : pc[i] = "Done" /\ hist[i].fetch = "TimeoutError"
    /\ \E i \in Tasks : pc[i] = "Done" /\ hist[i].tokenize = "TimeoutError"

\* -------------------------------------------------------------------- C20
\* C20: process_articles either returns, and then every task has returned
\* after appending its one entry, or it raises; it never returns while a
\* task has raised or been cancelled or while results holds fewer entries
\* than urls.
C20_AllOrNothing ==
    /\ orch = "returned" =>
          /\ \A i \in Tasks : pc[i] = "Done" /\ Len(outcome[i]) = 1
          /\ ~cancelled
    /\ (\E i \in Tasks : pc[i] = "Raised" \/ WasCancelled(i)) => orch # "returned"
    /\ Len(results) < Len(urls) => orch # "returned"
    /\ orch = "raised" => host_cancelled \/ \E i \in Tasks : pc[i] = "Raised"

\* Without any cancellation by the caller a batch of two has raised: one
\* task raised an exception no clause matches, the task group cancelled
\* its sibling, and results is short.
C20_Witness ==
    /\ orch = "raised"
    /\ ~host_cancelled
    /\ Len(urls) = 2
    /\ Len(results) < Len(urls)
    /\ \E i, j \in Tasks :
          /\ hist[i].fetch = "OtherError"
          /\ WasCancelled(j)

====
